---- MODULE Spec2Model ----
(***************************************************************************)
(* Model of src/lib/hashly.js: the manifest reconciliation engine          *)
(* (processFiles / createManifest / processEntry / createManifestEntryCss) *)
(* and the cleanup operations (clean / cleanOld).                          *)
(*                                                                         *)
(* Strings that are paths are modelled by what the code does with them.    *)
(* A path string "/s1/s2/.../name" is the record [dir |-> <<s1, s2, ...>>, *)
(* file |-> name]; an empty segment "" stands for a doubled or trailing    *)
(* separator, so "/src/" is the directory <<"src", "">> and string         *)
(* concatenation of a directory and a root-relative path is concatenation  *)
(* of the segment sequences.  A file name "base-hc<hash>.ext" is the       *)
(* record [base, hc, ext] with hc = <<>> when the name has no hash marker. *)
(***************************************************************************)
EXTENDS Integers, Sequences, FiniteSets, TLC

VARIABLES
    disk,          \* normalised physical path -> content, every file but the manifest
    oldFiles,      \* files whose mtime lies before any configured age threshold
    manifestFile,  \* <<>> when absent, else <<entries>>: the serialized manifest
    run,           \* the latest processFiles call: inputs, session data, result
    op,            \* the latest operation: kind and what it deleted
    steps          \* number of operations performed so far

vars == <<disk, oldFiles, manifestFile, run, op, steps>>

\* ------------------------------------------------------------------ bounds

\* Calls of processFiles, clean and cleanOld per behaviour; the edits of the
\* source tree and the passing of time between them are not counted.
MaxOps == 3

\* Depth of nested processEntry calls the engine's call stack can hold.
MaxStack == 2

\* ------------------------------------------------------------------ paths

File(base, ext) == [base |-> base, hc |-> <<>>, ext |-> ext]

Path(dir, file) == [dir |-> dir, file |-> file]

NoPath == Path(<<>>, File("", ""))

\* path.normalize on the directory part: drops "" and ".", resolves "..".
RECURSIVE NormFrom(_, _)
NormFrom(acc, rest) ==
    IF rest = <<>> THEN acc
    ELSE LET s == Head(rest)
             acc2 == IF s = "" \/ s = "." THEN acc
                     ELSE IF s = ".."
                          THEN (IF acc = <<>> THEN acc ELSE SubSeq(acc, 1, Len(acc) - 1))
                          ELSE Append(acc, s)
         IN NormFrom(acc2, Tail(rest))

Normalize(dir) == NormFrom(<<>>, dir)

\* The file a path string names: the file system normalises what it is given.
Norm(p) == Path(Normalize(p.dir), p.file)

\* path.dirname of a file path.
dirname(p) == p.dir

\* path.resolve(dir, relative) and path.join(dir, rootRelative): both
\* normalise the concatenation.
pathResolve(dir, rel) == Path(Normalize(dir \o rel.dir), rel.file)

\* Length of the longest common prefix of two segment sequences.
RECURSIVE CommonLen(_, _)
CommonLen(a, b) ==
    IF a = <<>> \/ b = <<>> \/ Head(a) # Head(b) THEN 0
    ELSE 1 + CommonLen(Tail(a), Tail(b))

\* path.relative(fromDir, toFile): both sides are normalised first.
pathRelative(from, to) ==
    LET f == Normalize(from)
        t == Normalize(to.dir)
        k == CommonLen(f, t)
    IN Path([i \in 1..(Len(f) - k) |-> ".."] \o SubSeq(t, k + 1, Len(t)), to.file)

\* fsutil.ensureUrlSeparators(path.sep + relative): the separator is
\* already "/", the relative path gets a leading "/".
ensureUrlSeparators(rel) == Path(rel.dir, rel.file)

\* String concatenation dir + "/seg/.../name" (hashly.js 300, 301, 424).
Concat(dir, rooted) == Path(dir \o rooted.dir, rooted.file)

\* a is a string prefix of b, for path segments.  The segments of the
\* modelled tree are "src", "dist" and file names; none is a proper prefix
\* of another, so only "" and equality remain.
StrPrefix(a, b) == a = "" \/ a = b

\* fullPath.indexOf(baseDir) === 0
StartsWith(fullPath, baseDir) ==
    LET n == Len(baseDir)
        d == fullPath.dir
    IN \/ n = 0
       \/ /\ Len(d) >= n - 1
          /\ \A i \in 1..(n - 1) : d[i] = baseDir[i]
          /\ IF Len(d) >= n THEN StrPrefix(baseDir[n], d[n]) ELSE baseDir[n] = ""

\* ------------------------------------------------------------------ contents

\* A reference token inside a stylesheet: root-relative ("/x/y.png") or
\* relative to the stylesheet ("../y.png").
Url(root, dir, file) == [root |-> root, dir |-> dir, file |-> file]

\* File content: an identity of the literal bytes plus, for stylesheets,
\* the reference tokens in the order they occur in the text.
Content(id, refs) == [id |-> id, refs |-> refs]

\* hash-pattern.isHashedFile: the file name carries the "-hc<hash>" marker.
isHashedFile(p) == p.file.hc # <<>>

\* hash-pattern.getHashedFileName: basename + "-hc" + hashCode + ext under targetDir.
getHashedFileName(fullPath, targetDir, hashCode) ==
    Path(Normalize(targetDir),
         [base |-> fullPath.file.base, hc |-> hashCode, ext |-> fullPath.file.ext])

\* hashcode-generator.generate: a deterministic, collision-free digest of
\* the text; the digest of a text is represented by the text it digests.
generate(text) == <<text>>

\* ------------------------------------------------------------------ the tree

SrcDir == <<"src">>
DistDir == <<"dist">>

A == Path(SrcDir, File("a", ".txt"))
IMG == Path(SrcDir, File("img", ".png"))
STY == Path(SrcDir, File("style", ".css"))
BAD == Path(SrcDir, File("bad", ".css"))
LOOP == Path(SrcDir, File("loop", ".css"))
KEEP == Path(DistDir, File("keep", ".txt"))
\* resolved target of bad.css's "../out.png": a file outside the source base
OUT == Path(<<>>, File("out", ".png"))
\* names that already carry the hash marker, inside and outside the source base
HSRC == Path(SrcDir, [base |-> "old", hc |-> generate(Content("i1", <<>>)), ext |-> ".png"])
HOUT == Path(DistDir, [base |-> "img", hc |-> generate(Content("i1", <<>>)), ext |-> ".png"])
\* a stylesheet whose one reference names the hashed file in the source base
HREF == Path(SrcDir, File("ref", ".css"))

\* The two versions of the image's bytes.
ImgV1 == Content("i1", <<>>)
ImgV2 == Content("i2", <<>>)

InitDisk ==
    (A :> Content("a", <<>>))
    @@ (IMG :> ImgV1)
    @@ (STY :> Content("style", <<Url(FALSE, <<>>, IMG.file), Url(TRUE, <<>>, IMG.file)>>))
    @@ (BAD :> Content("bad", <<Url(FALSE, <<"..">>, OUT.file)>>))
    @@ (LOOP :> Content("loop", <<Url(FALSE, <<>>, LOOP.file)>>))
    @@ (HREF :> Content("ref", <<Url(FALSE, <<>>, HSRC.file)>>))
    @@ (KEEP :> Content("keep", <<>>))

\* ------------------------------------------------------------------ session

NoEx == [kind |-> "none", about |-> NoPath]
Ex(kind, about) == [kind |-> kind, about |-> about]

\* An event of a run: a build (createManifestEntry or createManifestEntryCss
\* is called for the path), a copy (the hashed file dst is written), a
\* raise (the try block of processEntry for the path is left by an
\* exception) or a contain (the containment error is thrown for the path).
Event(ev, path, dst) == [ev |-> ev, path |-> path, dst |-> dst]

\* data = { manifest: [], errors: [], lookupMap: {} } (hashly.js 181-185),
\* threaded together with the file system and the log of the run's events.
\* lookupMap maps a path string to the index in manifest of the entry
\* object it references (entry objects are shared between the two).
NewData(d, o) ==
    [manifest |-> <<>>, errors |-> <<>>, lookupMap |-> <<>>,
     disk |-> d, oldFiles |-> o,
     log |-> <<>>, thrown |-> NoEx, ret |-> 0]

Lookup(st, p) == IF p \in DOMAIN st.lookupMap THEN st.lookupMap[p] ELSE 0

\* fsutil.readFileSync / generateForFile succeed on this path.
Readable(p, c, st) == Norm(p) \in DOMAIN st.disk /\ Norm(p) \notin c.failRead

\* initOptions: _options.shouldBeExcluded (hashly.js 234-244).  A filter is
\* represented by the set of paths its patterns match; include is <<>>
\* when no include list is configured.
shouldBeExcluded(c, filePath) ==
    IF filePath \in c.exclude THEN TRUE
    ELSE IF c.include # <<>> THEN filePath \notin c.include[1]
    ELSE FALSE

\* createManifestEntry (hashly.js 38-64) once the hash code is known.
createManifestEntry(fullPath, basePath, targetBasePath, hashCodeCoalesced) ==
    LET relativePath == pathRelative(basePath, fullPath)
        targetPath == pathResolve(targetBasePath, relativePath)
        targetDir == dirname(targetPath)
        hashedPathPhysical == getHashedFileName(fullPath, targetDir, hashCodeCoalesced)
        hashedPath == pathRelative(targetBasePath, hashedPathPhysical)
    IN [path |-> ensureUrlSeparators(relativePath),
        pathPhysical |-> fullPath,
        hashedPath |-> ensureUrlSeparators(hashedPath),
        hashedPathPhysical |-> hashedPathPhysical,
        hashCode |-> hashCodeCoalesced,
        unverified |-> FALSE]

NoEntry == createManifestEntry(NoPath, <<>>, <<>>, <<>>)

\* A catch block that records the error and goes on whatever the options say.
CatchSwallow(fullPath, c, st, ex) ==
    [st EXCEPT !.log = Append(@, Event("raise", fullPath, NoPath)),
               !.errors = Append(@, [path |-> fullPath, cause |-> ex]),
               !.thrown = NoEx, !.ret = 0]

\* The catch block of processEntry (hashly.js 159-174).
Catch(fullPath, c, st, ex) ==
    LET st1 == [st EXCEPT !.log = Append(@, Event("raise", fullPath, NoPath))]
    IN IF ~c.continueOnError
       THEN [st1 EXCEPT !.thrown = ex, !.ret = 0]
       ELSE [st1 EXCEPT !.errors = Append(@, [path |-> fullPath, cause |-> ex]),
                        !.thrown = NoEx, !.ret = 0]

RECURSIVE processEntry(_, _, _, _)
RECURSIVE processCss(_, _, _, _, _, _)

AsUrl(root, p) == Url(root, p.dir, p.file)

\* Lines 75-83 of processImagePath, st1 being the session after the nested
\* processEntry call: r.st is the session afterwards, r.url the
\* replacement text; r.st.thrown is set when the call threw.
imageUrl(virtualPath, fullPath, st1) ==
    IF st1.thrown # NoEx \/ st1.ret = 0
    THEN [st |-> st1, url |-> virtualPath]
    ELSE IF ~virtualPath.root
    THEN [st |-> st1,
          url |-> AsUrl(FALSE, pathRelative(dirname(fullPath),
                                            st1.manifest[st1.ret].hashedPathPhysical))]
    ELSE [st |-> st1, url |-> AsUrl(TRUE, st1.manifest[st1.ret].hashedPath)]

\* processImagePath (hashly.js 67-84).
processImagePath(virtualPath, fullPath, c, st, depth) ==
    imageUrl(virtualPath, fullPath,
             processEntry(IF virtualPath.root
                          THEN pathResolve(c.baseDir, virtualPath)
                          ELSE pathResolve(dirname(fullPath), virtualPath),
                          c, st, depth + 1))

\* css-processor.processCss: calls the callback on each reference of the
\* text, in order, and substitutes what it returns (r, for the first
\* reference of refs, in processCssRest).
RECURSIVE processCssRest(_, _, _, _, _, _)
processCss(refs, done, fullPath, c, st, depth) ==
    IF refs = <<>> \/ st.thrown # NoEx THEN [st |-> st, refs |-> done]
    ELSE processCssRest(refs, done, fullPath, c,
                        processImagePath(Head(refs), fullPath, c, st, depth), depth)

processCssRest(refs, done, fullPath, c, r, depth) ==
    processCss(Tail(refs), Append(done, r.url), fullPath, c, r.st, depth)

\* The entry of a stylesheet hashed over its source text instead of the
\* transformed text.
cssEntrySourceHash(fullPath, c, text, r) ==
    [st |-> r.st,
     entry |-> createManifestEntry(fullPath, c.baseDir, c.targetDir, generate(text)),
     text |-> <<Content(text.id, r.refs)>>]

\* Lines 88-92 of createManifestEntryCss: text is the stylesheet's source
\* text and r what processCss made of it; the entry is hashed over the
\* transformed text, which it carries as entry.transformedText.
cssEntry(fullPath, c, text, r) ==
    [st |-> r.st,
     entry |-> createManifestEntry(fullPath, c.baseDir, c.targetDir,
                                   generate(Content(text.id, r.refs))),
     text |-> <<Content(text.id, r.refs)>>]

\* createManifestEntryCss (hashly.js 66-93).
createManifestEntryCss(fullPath, c, st, depth) ==
    IF ~Readable(fullPath, c, st)
    THEN [st |-> [st EXCEPT !.thrown = Ex("io", fullPath)], entry |-> NoEntry, text |-> <<>>]
    ELSE cssEntry(fullPath, c, st.disk[Norm(fullPath)],
                  processCss(st.disk[Norm(fullPath)].refs, <<>>, fullPath, c, st, depth))

\* createManifestEntry called without a hash code: generateForFile reads the file.
createManifestEntryPlain(fullPath, c, st) ==
    IF ~Readable(fullPath, c, st)
    THEN [st |-> [st EXCEPT !.thrown = Ex("io", fullPath)], entry |-> NoEntry, text |-> <<>>]
    ELSE [st |-> st,
          entry |-> createManifestEntry(fullPath, c.baseDir, c.targetDir,
                                        generate(st.disk[Norm(fullPath)])),
          text |-> <<>>]

\* Lines 142-158 of processEntry: write the hashed file, push the entry,
\* register it in the lookup map.
Materialize(fullPath, c, st, entry, text) ==
    IF Norm(fullPath) \in c.failWrite
    THEN Catch(fullPath, c, st, Ex("io", fullPath))
    ELSE LET dst == entry.hashedPathPhysical
             bytes == IF text # <<>> THEN text[1] ELSE st.disk[Norm(fullPath)]
         IN [st EXCEPT !.disk = (dst :> bytes) @@ @,
                       !.oldFiles = @ \ {dst},
                       !.log = Append(@, Event("copy", fullPath, dst)),
                       !.manifest = Append(@, entry),
                       !.lookupMap = (fullPath :> (Len(st.manifest) + 1)) @@ @,
                       !.ret = Len(st.manifest) + 1]

\* The silent skips without the already-hashed check.
SilentSkipFiltersOnly(c, fullPath) == shouldBeExcluded(c, fullPath)

\* The two silent skips of processEntry (hashly.js 110-120): the file is
\* already hashed, or the filters exclude it.
SilentSkip(c, fullPath) ==
    IF isHashedFile(fullPath) THEN TRUE
    ELSE shouldBeExcluded(c, fullPath)

\* Lines 134-158 of processEntry, b being what the build returned: the
\* build threw, or it confirms the carried-over entry, or the hashed file
\* is written and the entry registered.
tryBuilt(fullPath, c, existingEntry, b) ==
    IF b.st.thrown # NoEx
    THEN Catch(fullPath, c, b.st, b.st.thrown)
    ELSE IF /\ existingEntry # 0
            /\ b.st.manifest[existingEntry].unverified
            /\ b.entry.hashedPath = b.st.manifest[existingEntry].hashedPath
    THEN [b.st EXCEPT !.manifest[existingEntry].unverified = FALSE,
                      !.ret = existingEntry]
    ELSE Materialize(fullPath, c, b.st, b.entry, b.text)

\* The session with the build of fullPath logged.
Building(st, fullPath) == [st EXCEPT !.log = Append(@, Event("build", fullPath, NoPath))]

\* processEntry (hashly.js 95-175).  The result is the session after the
\* call; ret is the index of the returned entry (0: undefined or null) and
\* thrown the exception that left the call, if any.
processEntry(fullPath, c, st, depth) ==
    IF depth > MaxStack
    THEN [st EXCEPT !.thrown = Ex("stack", fullPath), !.ret = 0]
    ELSE IF Lookup(st, fullPath) # 0 /\ ~st.manifest[Lookup(st, fullPath)].unverified
    THEN [st EXCEPT !.ret = Lookup(st, fullPath)]
    ELSE IF ~StartsWith(fullPath, c.baseDir)
    THEN [st EXCEPT !.thrown = Ex("containment", fullPath),
                    !.log = Append(@, Event("contain", fullPath, NoPath)), !.ret = 0]
    ELSE IF SilentSkip(c, fullPath)
    THEN [st EXCEPT !.ret = 0]
    ELSE tryBuilt(fullPath, c, Lookup(st, fullPath),
                  IF c.processCss /\ fullPath.file.ext = ".css"
                  THEN createManifestEntryCss(fullPath, c, Building(st, fullPath), depth)
                  ELSE createManifestEntryPlain(fullPath, c, Building(st, fullPath)))

\* ------------------------------------------------------------------ manifest

\* getManifestPath (hashly.js 15-24) with no explicit manifestPath:
\* path.join(directory, "manifest" + serializer.extension).
getManifestPath(directory) == Path(Normalize(directory), File("manifest", ".json"))

\* Position of a segment in the ordinary string order of the segments used.
SegRank(s) ==
    CASE s = "" -> 0
      [] s = ".." -> 1
      [] s = "a" -> 2
      [] s = "bad" -> 3
      [] s = "dist" -> 4
      [] s = "img" -> 5
      [] s = "keep" -> 6
      [] s = "loop" -> 7
      [] s = "manifest" -> 8
      [] s = "old" -> 9
      [] s = "out" -> 10
      [] s = "ref" -> 11
      [] s = "src" -> 12
      [] s = "style" -> 13
      [] OTHER -> 14

PathKey(p) == [i \in 1..(Len(p.dir) + 1) |->
                  IF i <= Len(p.dir) THEN SegRank(p.dir[i]) ELSE SegRank(p.file.base)]

RECURSIVE KeyLess(_, _)
KeyLess(a, b) ==
    IF b = <<>> THEN FALSE
    ELSE IF a = <<>> THEN TRUE
    ELSE IF Head(a) # Head(b) THEN Head(a) < Head(b)
    ELSE KeyLess(Tail(a), Tail(b))

\* compare (hashly.js 26-34) on two path strings.
compare(a, b) ==
    IF KeyLess(PathKey(a), PathKey(b)) THEN -1
    ELSE IF KeyLess(PathKey(b), PathKey(a)) THEN 1
    ELSE 0

\* An insertion that ignores the comparator.
InsertFirst(sorted, e) == <<e>> \o sorted

\* Array.prototype.sort with the comparator of hashly.js 339-341 (stable).
RECURSIVE InsertSorted(_, _)
InsertSorted(sorted, e) ==
    IF sorted = <<>> THEN <<e>>
    ELSE IF compare(e.path, Head(sorted).path) < 0 THEN <<e>> \o sorted
    ELSE <<Head(sorted)>> \o InsertSorted(Tail(sorted), e)

\* The array left in the order the entries were pushed.
Unsorted(entries) == entries

RECURSIVE SortByPath(_)
SortByPath(entries) ==
    IF entries = <<>> THEN <<>>
    ELSE InsertSorted(SortByPath(SubSeq(entries, 1, Len(entries) - 1)),
                      entries[Len(entries)])

\* The trimming map of hashly.js 328-337.
Trim(entry) == [path |-> entry.path, hashedPath |-> entry.hashedPath]

\* The written manifest without the entries still marked unverified.
IsVerified(entry) == ~entry.unverified

trimmedVerifiedOnly(manifest) ==
    SortByPath([i \in 1..Len(SelectSeq(manifest, IsVerified)) |->
                   Trim(SelectSeq(manifest, IsVerified)[i])])

trimmedManifest(manifest) == SortByPath([i \in 1..Len(manifest) |-> Trim(manifest[i])])

\* serializer.parse followed by the reconstruction of hashly.js 298-302 and
\* the marking of hashly.js 191-195.
Carried(e, baseDir, targetDir) ==
    [path |-> e.path,
     pathPhysical |-> Concat(baseDir, e.path),
     hashedPath |-> e.hashedPath,
     hashedPathPhysical |-> Concat(targetDir, e.hashedPath),
     hashCode |-> <<>>,
     unverified |-> TRUE]

\* data.lookupMap[entry.pathPhysical] = entry, in manifest order.
RECURSIVE SeedLookup(_, _, _)
SeedLookup(manifest, i, map) ==
    IF i > Len(manifest) THEN map
    ELSE SeedLookup(manifest, i + 1, (manifest[i].pathPhysical :> i) @@ map)

\* files.forEach(processEntry) (hashly.js 199-201); an exception leaves the loop.
RECURSIVE ForEachFile(_, _, _)
ForEachFile(files, c, st) ==
    IF files = <<>> \/ st.thrown # NoEx THEN st
    ELSE ForEachFile(Tail(files), c, processEntry(Head(files), c, st, 1))

\* createManifest (hashly.js 179-204).
createManifest(files, c, existingManifestData, d, o) ==
    LET data0 == NewData(d, o)
        data == IF existingManifestData = <<>> THEN data0
                ELSE LET m == [i \in 1..Len(existingManifestData[1]) |->
                                  Carried(existingManifestData[1][i], c.baseDir, c.targetDir)]
                     IN [data0 EXCEPT !.manifest = m,
                                      !.lookupMap = SeedLookup(m, 1, <<>>)]
    IN ForEachFile(files, c, data)

\* An existence test that every directory passes.
DirAlwaysExists(d, dir) == TRUE

\* fsutil.existsSync on a directory.
DirExists(d, dir) == \E p \in DOMAIN d : Len(p.dir) >= Len(Normalize(dir))
                        /\ SubSeq(p.dir, 1, Len(Normalize(dir))) = Normalize(dir)

RECURSIVE FilterOut(_, _)
FilterOut(files, x) ==
    IF files = <<>> THEN <<>>
    ELSE IF Head(files) = x THEN FilterOut(Tail(files), x)
    ELSE <<Head(files)>> \o FilterOut(Tail(files), x)

\* What a processFiles call leaves behind: the file system, the manifest
\* file and the record of the call kept in the variable run (its inputs,
\* the image's bytes at the time, whether a manifest file existed, the
\* return code, the exception handleError got, and the session data).
Outcome(c, d, o, m, had, ret, aborted, data) ==
    [disk |-> d, oldFiles |-> o, manifestFile |-> m,
     run |-> [call |-> c, src |-> d[IMG], hadManifest |-> had,
              ret |-> ret, aborted |-> aborted,
              manifest |-> data.manifest, errors |-> data.errors,
              lookupMap |-> data.lookupMap, log |-> data.log]]

\* Lines 319-361 of processFiles, data being what createManifest returned
\* or left behind when it threw; ret -1 is what handleError returns.
writeManifest(c, m, data) ==
    IF data.thrown # NoEx
    THEN Outcome(c, data.disk, data.oldFiles, <<>>, m # <<>>, -1, data.thrown, data)
    ELSE Outcome(c, data.disk, data.oldFiles,
                 <<trimmedManifest(data.manifest)>>, m # <<>>,
                 IF Len(data.errors) > 0 THEN -1 ELSE 0, NoEx, data)

\* processFiles (hashly.js 265-362).
processFiles(c, d, o, m) ==
    IF ~DirExists(d, c.baseDir)
    THEN Outcome(c, d, o, m, m # <<>>, -1, Ex("config", NoPath), NewData(d, o))
    ELSE writeManifest(c, m,
                       createManifest(FilterOut(c.files, getManifestPath(c.targetDir)), c,
                                      IF c.amend /\ m # <<>> THEN m ELSE <<>>, d, o))

\* ------------------------------------------------------------------ cleanup

\* fsutil.recurseDirSync(directory, callback): the files under the
\* directory, each named by path.join of its parent and its name, as
\* recurseDir of src/pipeline.js builds them.
recurseDirSync(d, directory) ==
    {p \in DOMAIN d : /\ Len(p.dir) >= Len(Normalize(directory))
                      /\ SubSeq(p.dir, 1, Len(Normalize(directory))) = Normalize(directory)}

\* clean deleting every file the walk visits, hashed or not.
cleanDeletesAll(d, directory) == recurseDirSync(d, directory)

\* clean (hashly.js 385-405): the files it deletes.
cleanDeletes(d, directory) == {p \in recurseDirSync(d, directory) : isHashedFile(p)}

\* The fileSet of cleanOld (hashly.js 419-426).
fileSet(m, directory) ==
    IF m = <<>> THEN {}
    ELSE {Concat(directory, m[1][i].hashedPath) : i \in 1..Len(m[1])}

\* cleanOld (hashly.js 428-446): the files it deletes.  A file is in o
\* when stat.mtime < oldestAllowed for the positive threshold in use.
cleanOldDeletes(d, o, m, directory, cleanOldDays) ==
    {p \in recurseDirSync(d, directory) :
        /\ isHashedFile(p)
        /\ p \notin fileSet(m, directory)
        /\ ~(cleanOldDays > 0 /\ p \notin o)}

Remove(d, gone) == [p \in (DOMAIN d) \ gone |-> d[p]]

\* ------------------------------------------------------------------ inputs

\* The age threshold used when one is configured (options.cleanOldDays).
SomeDays == 7

Dirs(dir) == {dir, dir \o <<"">>}

Call(files, baseDir, targetDir, amend, coe, css, excl, incl, fr, fw) ==
    [files |-> files, baseDir |-> baseDir, targetDir |-> targetDir,
     amend |-> amend, continueOnError |-> coe, processCss |-> css,
     exclude |-> excl, include |-> incl, failRead |-> fr, failWrite |-> fw]

\* An option bundle and environment: directories, processCss, the filters,
\* and the files whose read (fr) or copy (fw) raises an I/O error.
Variant(base, target, css, excl, incl, fr, fw) ==
    [base |-> base, target |-> target, css |-> css, excl |-> excl, incl |-> incl,
     fr |-> fr, fw |-> fw]

Plain == Variant(SrcDir, DistDir, TRUE, {}, <<>>, {}, {})
Slashed == Variant(SrcDir \o <<"">>, DistDir \o <<"">>, TRUE, {}, <<>>, {}, {})
NoSource == Variant(<<"nosrc">>, DistDir, TRUE, {}, <<>>, {}, {})
NoCss == Variant(SrcDir, DistDir, FALSE, {}, <<>>, {}, {})
Excluding == Variant(SrcDir, DistDir, TRUE, {IMG}, <<>>, {}, {})
Including == Variant(SrcDir, DistDir, TRUE, {}, <<{A, STY}>>, {}, {})
ReadFails == Variant(SrcDir, DistDir, TRUE, {}, <<>>, {IMG}, {})
CopyFails == Variant(SrcDir, DistDir, TRUE, {}, <<>>, {}, {IMG})

\* The file lists run fresh and amending and, for each, the bundles it is
\* run with.
Inputs ==
    ({<<A, IMG, STY>>} \X {Plain, Slashed, NoSource, NoCss, Excluding, Including,
                           ReadFails, CopyFails})
    \cup ({<<STY>>} \X {Plain, Excluding})

\* The file lists run fresh only.
FreshInputs ==
    {<<STY, IMG, A>>, <<BAD, A>>, <<LOOP, A>>, <<HSRC, A>>, <<HOUT, A>>, <<HREF, A>>}
    \X {Plain}

Calls ==
    { Call(i[1], i[2].base, i[2].target, am, coe, i[2].css, i[2].excl, i[2].incl,
           i[2].fr, i[2].fw) :
        i \in Inputs, am \in BOOLEAN, coe \in BOOLEAN }
    \cup
    { Call(i[1], i[2].base, i[2].target, FALSE, coe, i[2].css, i[2].excl, i[2].incl,
           i[2].fr, i[2].fw) :
        i \in FreshInputs, coe \in BOOLEAN }

NoCall == Call(<<>>, <<>>, <<>>, FALSE, FALSE, FALSE, {}, <<>>, {}, {})

NoRun == Outcome(NoCall, InitDisk, {}, <<>>, FALSE, 0, NoEx, NewData(InitDisk, {})).run

Op(kind, directory, days, deleted) ==
    [kind |-> kind, directory |-> directory, days |-> days, deleted |-> deleted]

\* ------------------------------------------------------------------ actions

Init ==
    /\ disk = InitDisk
    /\ oldFiles = {}
    /\ manifestFile = <<>>
    /\ run = NoRun
    /\ op = Op("init", <<>>, 0, {})
    /\ steps = 0

\* exports.processFiles(files, baseDir, targetDir, options)
ProcessFiles ==
    /\ steps < MaxOps
    /\ \E c \in Calls :
        \E r \in {processFiles(c, disk, oldFiles, manifestFile)} :
           /\ disk' = r.disk
           /\ oldFiles' = r.oldFiles
           /\ manifestFile' = r.manifestFile
           /\ run' = r.run
           /\ op' = Op("processFiles", c.targetDir, 0, {})
           /\ steps' = steps + 1

\* exports.clean(directory, options)
Clean ==
    /\ steps < MaxOps
    /\ \E directory \in Dirs(DistDir) :
        \E gone \in {cleanDeletes(disk, directory)} :
           /\ disk' = Remove(disk, gone)
           /\ oldFiles' = oldFiles \ gone
           /\ manifestFile' = <<>>
           /\ op' = Op("clean", directory, 0, gone)
           /\ steps' = steps + 1
           /\ UNCHANGED run

\* exports.cleanOld(directory, options)
CleanOld ==
    /\ steps < MaxOps
    /\ \E directory \in Dirs(DistDir), cleanOldDays \in {0, SomeDays} :
        \E gone \in {cleanOldDeletes(disk, oldFiles, manifestFile, directory, cleanOldDays)} :
           /\ disk' = Remove(disk, gone)
           /\ oldFiles' = oldFiles \ gone
           /\ op' = Op("cleanOld", directory, cleanOldDays, gone)
           /\ steps' = steps + 1
           /\ UNCHANGED <<manifestFile, run>>

\* The environment edits the image in the source tree.
ModifyImage ==
    /\ steps < MaxOps
    /\ disk[IMG] = ImgV1
    /\ disk' = [disk EXCEPT ![IMG] = ImgV2]
    /\ op' = Op("modify", <<>>, 0, {})
    /\ UNCHANGED <<oldFiles, manifestFile, run, steps>>

\* Time passes: every hashed file now on disk is older than the threshold.
Age ==
    /\ steps < MaxOps
    /\ oldFiles' = {p \in DOMAIN disk : isHashedFile(p)}
    /\ oldFiles' # oldFiles
    /\ op' = Op("age", <<>>, 0, {})
    /\ UNCHANGED <<disk, manifestFile, run, steps>>

Next == ProcessFiles \/ Clean \/ CleanOld \/ ModifyImage \/ Age

Spec == Init /\ [][Next]_vars

\* ------------------------------------------------------------------ vocabulary of the claims

\* The entries of the manifest file on disk.
ManifestEntries == IF manifestFile = <<>> THEN <<>> ELSE manifestFile[1]

\* The virtual path of a source file.
VirtualPath(p) == ensureUrlSeparators(pathRelative(SrcDir, p))

\* The manifest on disk has an entry for source file p.
HasEntry(p) == \E i \in 1..Len(ManifestEntries) : ManifestEntries[i].path = VirtualPath(p)

\* Positions of the events of one kind in a run's log, and their paths.
Events(r, ev) == {i \in 1..Len(r.log) : r.log[i].ev = ev}
PathsOf(r, ev) == {r.log[i].path : i \in Events(r, ev)}

\* The latest operation was a processFiles call that found its source directory.
JustRan == op.kind = "processFiles" /\ run.aborted.kind # "config"

\* This step is a call of the named operation.
StepOf(kind) == op'.kind = kind /\ steps' = steps + 1

\* Every path a call can be given or can reach through a reference.
Candidates == {A, IMG, STY, BAD, LOOP, HREF, HSRC, HOUT, OUT}

\* ------------------------------------------------------------------ C1

\* C1: a processFiles call with amend that repeats the previous call, which
\* returned 0, on an unchanged tree leaves the manifest file as it was and
\* copies or writes no hashed file.
C1_AmendIdempotent ==
    [][ ( /\ op.kind = "processFiles" /\ run.ret = 0
          /\ StepOf("processFiles")
          /\ run'.call = run.call /\ run'.call.amend )
        => (manifestFile' = manifestFile /\ Events(run', "copy") = {}) ]_vars

\* ------------------------------------------------------------------ C2

\* The run's caught exceptions are all I/O errors of a build or a copy.
OnlyIoErrors == \A i \in 1..Len(run.errors) : run.errors[i].cause.kind = "io"

\* C2: after a processFiles call with continueOnError in which no path left
\* the source base, whatever files raised an I/O error, a manifest file is
\* written, it has no entry for a file that raised, and it has an entry for
\* every file that was built and did not raise.
C2_FailureIsolation ==
    (JustRan /\ run.call.continueOnError /\ Events(run, "contain") = {} /\ OnlyIoErrors)
    => /\ manifestFile # <<>>
       /\ \A p \in PathsOf(run, "raise") : ~HasEntry(p)
       /\ \A p \in PathsOf(run, "build") \ PathsOf(run, "raise") : HasEntry(p)

\* ------------------------------------------------------------------ C3

\* C3: after a processFiles call with continueOnError, the errors list has
\* one message per file that raised, no two messages for the same file, each
\* naming the file, and the return code is nonzero exactly when the list is
\* non-empty or the run was aborted.
C3_ErrorAccounting ==
    (JustRan /\ run.call.continueOnError)
    => /\ {run.errors[i].path : i \in 1..Len(run.errors)} = PathsOf(run, "raise")
       /\ \A i, j \in 1..Len(run.errors) :
              run.errors[i].path = run.errors[j].path => i = j
       /\ (run.ret # 0) <=> (Len(run.errors) > 0 \/ run.aborted # NoEx)

\* ------------------------------------------------------------------ C4

\* C4: after a processFiles call without continueOnError in which a file's
\* processing raised, the call returned nonzero, no manifest file exists,
\* and after the first raise nothing was built or copied (what follows in
\* the log is the same exception leaving the enclosing calls).
C4_AbortPath ==
    (JustRan /\ ~run.call.continueOnError /\ Events(run, "raise") # {})
    => /\ run.ret # 0
       /\ manifestFile = <<>>
       /\ \A i \in Events(run, "raise"), j \in 1..Len(run.log) :
              j > i => run.log[j].ev = "raise"

\* A call without continueOnError aborted by an I/O error on the second of
\* three files, leaving the third unbuilt, where a manifest file existed
\* before the call.
C4_Witness ==
    /\ JustRan /\ ~run.call.continueOnError /\ run.hadManifest
    /\ run.call.files = <<A, IMG, STY>>
    /\ run.aborted = Ex("io", IMG)
    /\ A \in PathsOf(run, "build")
    /\ STY \notin PathsOf(run, "build")

\* ------------------------------------------------------------------ C5

\* C5: whenever the containment error is thrown during a processFiles call,
\* for a listed path or for the target of a stylesheet reference, the call
\* is aborted by that error and no message for it is recorded in the errors
\* list.
C5_ContainmentFatal ==
    (JustRan /\ Events(run, "contain") # {})
    => /\ run.aborted.kind = "containment"
       /\ \A i \in 1..Len(run.errors) : run.errors[i].cause.kind # "containment"

\* ------------------------------------------------------------------ C6

\* C6: after a processFiles call that wrote a manifest, fresh or amending,
\* no file the call's filters exclude has an entry in the manifest file or
\* was copied by the call.
C6_ExclusionCorrect ==
    (JustRan /\ run.aborted = NoEx)
    => \A p \in Candidates :
           shouldBeExcluded(run.call, p)
           => (~HasEntry(p) /\ p \notin PathsOf(run, "copy"))

\* ------------------------------------------------------------------ C7

\* What processing path p did in the run: nothing was built, copied, raised
\* or thrown for it, no session entry is for it, and the manifest file (if
\* written) has no entry for it.
Untouched(p) ==
    /\ \A i \in 1..Len(run.log) : run.log[i].path # p
    /\ \A i \in 1..Len(run.errors) : run.errors[i].path # p
    /\ \A i \in 1..Len(run.manifest) : Norm(run.manifest[i].pathPhysical) # p
    /\ run.aborted.about # p
    /\ \A i \in 1..Len(ManifestEntries) :
           ManifestEntries[i].path # ensureUrlSeparators(pathRelative(run.call.baseDir, p))

\* C7 as claimed: after a processFiles call, every path whose name carries
\* the hash marker, listed or referenced by a stylesheet, is untouched,
\* wherever the file lies.
C7_AlreadyHashedAnywhere ==
    JustRan => \A p \in Candidates : isHashedFile(p) => Untouched(p)

\* C7 as amended: after a processFiles call, every path whose name carries
\* the hash marker and which passes the containment check (it starts with
\* the base directory), listed or referenced by a stylesheet, is untouched.
C7_AlreadyHashedUnderBase ==
    JustRan => \A p \in Candidates :
                   (isHashedFile(p) /\ StartsWith(p, run.call.baseDir)) => Untouched(p)

\* A completed call that was given a hashed name under the source base and
\* went on to process the next file.
C7_Witness ==
    /\ JustRan /\ run.aborted = NoEx /\ run.ret = 0
    /\ run.call.files = <<HSRC, A>>
    /\ StartsWith(HSRC, run.call.baseDir)
    /\ A \in PathsOf(run, "copy")

\* ------------------------------------------------------------------ C8

\* The run processed path p: its lookup map holds a verified entry for it.
Processed(r, p) == p \in DOMAIN r.lookupMap /\ ~r.manifest[r.lookupMap[p]].unverified

EntryOf(r, p) == r.manifest[r.lookupMap[p]]

\* C8: when a processFiles call with stylesheet rewriting repeats the
\* previous call after the image's bytes (and nothing else) changed, and
\* both calls processed the image and the stylesheet referencing it, then
\* the image's hashed path differs between the two, every reference in the
\* stylesheet written by the second names the image's new hashed file, the
\* stylesheet's hash is the digest of that written text and not of its
\* source text, and the stylesheet's hashed path differs between the two.
C8_ChangePropagation ==
    [][ ( /\ StepOf("processFiles")
          /\ run'.call = run.call /\ run.call.processCss
          /\ run'.src # run.src
          /\ Processed(run, IMG) /\ Processed(run, STY)
          /\ Processed(run', IMG) /\ Processed(run', STY) )
        => LET i0 == EntryOf(run, IMG)
               i1 == EntryOf(run', IMG)
               s0 == EntryOf(run, STY)
               s1 == EntryOf(run', STY)
               out == Norm(s1.hashedPathPhysical)
           IN /\ i1.hashedPath # i0.hashedPath
              /\ out \in DOMAIN disk'
              /\ \A k \in 1..Len(disk'[out].refs) :
                     /\ disk'[out].refs[k].file = i1.hashedPath.file
                     /\ disk'[out].refs[k].file # i0.hashedPath.file
              /\ s1.hashedPath.file.hc = generate(disk'[out])
              /\ s1.hashedPath.file.hc # generate(disk'[STY])
              /\ s1.hashedPath # s0.hashedPath ]_vars

\* An amending call that processed the stylesheet and the image after the
\* image changed: the manifest file still carries the image's previous
\* hashed path beside the new one.
C8_Witness ==
    /\ JustRan /\ run.call.amend /\ run.call.processCss /\ run.hadManifest
    /\ run.src = ImgV2
    /\ Processed(run, IMG) /\ Processed(run, STY)
    /\ \E i, j \in 1..Len(ManifestEntries) :
           /\ ManifestEntries[i].path = VirtualPath(IMG)
           /\ ManifestEntries[i].hashedPath.file.hc = generate(ImgV1)
           /\ ManifestEntries[j].path = VirtualPath(IMG)
           /\ ManifestEntries[j].hashedPath.file.hc = generate(ImgV2)

\* ------------------------------------------------------------------ C9

\* File p is the hashed file some entry of the manifest on disk names,
\* relative to the directory being cleaned.
Referenced(p, directory) ==
    \E i \in 1..Len(ManifestEntries) :
        Norm(Concat(directory, ManifestEntries[i].hashedPath)) = p

\* C9: a cleanOld call leaves the manifest file alone and deletes exactly
\* the files under the directory that carry the hash marker, are named by
\* no entry of the manifest, and, when a positive age threshold is
\* configured, are older than the threshold; so no referenced file and no
\* non-hashed file is deleted.
C9_StaleCleanSafety ==
    [][ StepOf("cleanOld")
        => /\ manifestFile' = manifestFile
           /\ \A p \in DOMAIN disk :
                  /\ p \in DOMAIN disk' => disk'[p] = disk[p]
                  /\ p \notin DOMAIN disk'
                       <=> /\ p \in recurseDirSync(disk, op'.directory)
                           /\ isHashedFile(p)
                           /\ ~Referenced(p, op'.directory)
                           /\ (op'.days = 0 \/ p \in oldFiles) ]_vars

\* ------------------------------------------------------------------ C10

\* C10: after a clean call the manifest file does not exist, no file under
\* the directory carries the hash marker, and every file without the hash
\* marker is still there with the content it had.
C10_FullClean ==
    [][ StepOf("clean")
        => /\ manifestFile' = <<>>
           /\ \A p \in recurseDirSync(disk', op'.directory) : ~isHashedFile(p)
           /\ \A p \in DOMAIN disk :
                  ~isHashedFile(p) => (p \in DOMAIN disk' /\ disk'[p] = disk[p]) ]_vars

\* A clean call that followed a processFiles call which wrote a manifest
\* and hashed files: the hashed files are gone, the manifest is gone, and
\* the non-hashed file of the target directory is still there.
C10_Witness ==
    /\ op.kind = "clean"
    /\ run.ret = 0 /\ Events(run, "copy") # {}
    /\ \A i \in Events(run, "copy") : Norm(run.log[i].dst) \in op.deleted
    /\ manifestFile = <<>>
    /\ KEEP \in DOMAIN disk

\* ------------------------------------------------------------------ C11

\* C11: in every manifest a processFiles call writes, each entry has the
\* fields path and hashedPath and no other (no pathPhysical,
\* hashedPathPhysical, hashCode or unverified), and the entries are in
\* non-decreasing string order of path.
C11_TrimmedAndSorted ==
    (JustRan /\ manifestFile # <<>>)
    => /\ \A i \in 1..Len(ManifestEntries) :
              DOMAIN ManifestEntries[i] = {"path", "hashedPath"}
       /\ \A i, j \in 1..Len(ManifestEntries) :
              i < j => compare(ManifestEntries[i].path, ManifestEntries[j].path) <= 0
       /\ Len(ManifestEntries) = Len(run.manifest)

\* An amending call that wrote a manifest of at least three entries, one of
\* them carried over and never confirmed, its session manifest not being in
\* path order.
C11_Witness ==
    /\ JustRan /\ manifestFile # <<>> /\ run.call.amend
    /\ Len(ManifestEntries) >= 3
    /\ \E i \in 1..Len(run.manifest) : run.manifest[i].unverified
    /\ \E i, j \in 1..Len(run.manifest) :
           i < j /\ compare(run.manifest[i].path, run.manifest[j].path) > 0

\* ------------------------------------------------------------------ C12

\* No file of the file system d lies under the directory.
Missing(d, directory) == recurseDirSync(d, directory) = {}

\* C12: a processFiles call whose source directory does not exist returns
\* nonzero, builds and copies nothing, and leaves the file system and the
\* manifest file, present or absent, as they were.
C12_ConfigErrorTouchesNothing ==
    [][ (StepOf("processFiles") /\ Missing(disk, run'.call.baseDir))
        => /\ run'.ret # 0
           /\ run'.log = <<>>
           /\ disk' = disk
           /\ manifestFile' = manifestFile ]_vars

\* A call on a missing source directory made while a manifest file of an
\* earlier call exists: the manifest file is still there.
C12_Witness ==
    /\ op.kind = "processFiles"
    /\ Missing(disk, run.call.baseDir)
    /\ run.call.files # <<>>
    /\ run.hadManifest /\ manifestFile # <<>>

\* ------------------------------------------------------------------ C13

\* C13: when an amending processFiles call completes, every entry of the
\* previous manifest file that is still marked unverified in the session at
\* the end of the call (the carried-over entries are the first entries of
\* the session manifest, in the file's order) is in the manifest file the
\* call writes, with the path and hashedPath it had.
C13_CarryOverRetained ==
    [][ ( /\ StepOf("processFiles") /\ run'.call.amend
          /\ run'.aborted = NoEx /\ manifestFile # <<>> )
        => /\ manifestFile' # <<>>
           /\ \A k \in 1..Len(manifestFile[1]) :
                  run'.manifest[k].unverified
                  => \E j \in 1..Len(manifestFile'[1]) :
                         manifestFile'[1][j] = manifestFile[1][k] ]_vars

\* A completed amending call that confirmed or rebuilt some files and left
\* a carried-over entry unverified.
C13_Witness ==
    /\ JustRan /\ run.call.amend /\ run.hadManifest /\ run.aborted = NoEx
    /\ \E i \in 1..Len(run.manifest) : run.manifest[i].unverified
    /\ \E i \in 1..Len(run.manifest) : ~run.manifest[i].unverified
    /\ Len(ManifestEntries) = Len(run.manifest)

\* ------------------------------------------------------------------ C14

\* C14: within one processFiles call no path is built more than once and
\* no path is copied more than once, and no two entries of the session
\* manifest were appended for the same path.
C14_AtMostOnce ==
    JustRan
    => /\ \A i, j \in Events(run, "build") :
              run.log[i].path = run.log[j].path => i = j
       /\ \A i, j \in Events(run, "copy") :
              run.log[i].path = run.log[j].path => i = j
       /\ \A i, j \in 1..Len(run.manifest) :
              (/\ ~run.manifest[i].unverified /\ ~run.manifest[j].unverified
               /\ run.manifest[i].pathPhysical = run.manifest[j].pathPhysical) => i = j

\* ------------------------------------------------------------------ C15

\* C15: in no processFiles call does the recursion processEntry ->
\* createManifestEntryCss -> processEntry run until the call stack is
\* exhausted: no call is aborted by, and no call records, a stack overflow.
C15_RecursionBounded ==
    JustRan
    => /\ run.aborted.kind # "stack"
       /\ \A i \in 1..Len(run.errors) : run.errors[i].cause.kind # "stack"

\* ------------------------------------------------------------------ C16

\* The stylesheets of the source tree.
Stylesheets == {STY, BAD, LOOP, HREF}

\* The file a reference v of stylesheet x names: a root-relative reference
\* is taken from the base directory, any other from the stylesheet's.
Target(v, x, baseDir) ==
    IF v.root THEN pathResolve(baseDir, v) ELSE pathResolve(dirname(x), v)

\* Reference v of stylesheet x, naming file t, was written as w.
Rewritten(x, v, w, t) ==
    t # x
    => IF Processed(run, t)
       THEN /\ w = IF v.root
                   THEN AsUrl(TRUE, EntryOf(run, t).hashedPath)
                   ELSE AsUrl(FALSE, pathRelative(dirname(x),
                                                  EntryOf(run, t).hashedPathPhysical))
            /\ Norm(EntryOf(run, t).hashedPathPhysical) \in DOMAIN disk
            /\ \E i \in 1..Len(ManifestEntries) :
                   ManifestEntries[i] = Trim(EntryOf(run, t))
       ELSE w = v

\* C16: after a processFiles call that processed stylesheet x, the text
\* written for x has, for each reference of the source text to a file other
\* than x itself, in the same position: when the call processed the
\* reference's target, the target's hashedPath for a root-relative
\* reference and the path from x's directory to the target's hashed file
\* otherwise, the target having an entry in the manifest file and a hashed
\* file on disk whether or not it was listed; and the reference unchanged
\* when the target yielded no entry (excluded, already hashed, or failed).
\* And the call processed every listed stylesheet that is not excluded,
\* can itself be read and written, and whose references all name other
\* files under the base directory, whatever became of those files.
C16_ReferenceRewriting ==
    (JustRan /\ run.call.processCss /\ manifestFile # <<>>)
    => \A x \in Stylesheets :
         /\ ( /\ \E i \in 1..Len(run.call.files) : run.call.files[i] = x
              /\ ~shouldBeExcluded(run.call, x)
              /\ x \notin (run.call.failRead \cup run.call.failWrite)
              /\ \A k \in 1..Len(disk[x].refs) :
                     /\ Target(disk[x].refs[k], x, run.call.baseDir) # x
                     /\ StartsWith(Target(disk[x].refs[k], x, run.call.baseDir),
                                   run.call.baseDir) )
            => Processed(run, x)
         /\ Processed(run, x)
            => ( /\ Len(disk[Norm(EntryOf(run, x).hashedPathPhysical)].refs)
                      = Len(disk[x].refs)
                 /\ \A k \in 1..Len(disk[x].refs) :
                      Rewritten(x, disk[x].refs[k],
                                disk[Norm(EntryOf(run, x).hashedPathPhysical)].refs[k],
                                Target(disk[x].refs[k], x, run.call.baseDir)) )

\* ------------------------------------------------------------------ C17

\* C17: every manifest a processFiles call writes, fresh or amending, has
\* at most one entry per virtual path.
C17_UniqueVirtualPath ==
    (JustRan /\ manifestFile # <<>>)
    => \A i, j \in 1..Len(ManifestEntries) :
           ManifestEntries[i].path = ManifestEntries[j].path => i = j

\* ------------------------------------------------------------------ C18

\* The hashed file an entry of the manifest file names, in the target
\* directory.
Backing(entry) == Norm(Concat(DistDir, entry.hashedPath))

\* C18: in every state reached by processFiles, clean and cleanOld calls on
\* the one source and target directory, every entry of the manifest file
\* names a hashed file that exists in the target directory; and every entry
\* a call appended to its session manifest was appended after its hashed
\* file was written.
C18_EntriesBacked ==
    /\ \A i \in 1..Len(ManifestEntries) : Backing(ManifestEntries[i]) \in DOMAIN disk
    /\ JustRan
       => \A i \in 1..Len(run.manifest) :
              run.manifest[i].hashCode # <<>>
              => \E k \in Events(run, "copy") :
                     /\ run.log[k].dst = run.manifest[i].hashedPathPhysical
                     /\ run.log[k].path = run.manifest[i].pathPhysical

\* ------------------------------------------------------------------ C19

\* The orders in which a file list can be given.
Orders(files) ==
    {[i \in 1..Len(files) |-> files[pi[i]]] : pi \in Permutations(1..Len(files))}

\* The hashed files a call wrote.
Produced(r) == {r.log[k].dst : k \in Events(r, "copy")}

\* C19: after a fresh processFiles call in which nothing failed, the same
\* call made with its files in any other order writes the same manifest
\* file and the same hashed files with the same contents.
C19_OrderIndependent ==
    (JustRan /\ ~run.call.amend /\ run.ret = 0)
    => \A f \in Orders(run.call.files) :
           \A r \in {processFiles([run.call EXCEPT !.files = f], disk, oldFiles, <<>>)} :
               /\ r.run.ret = 0
               /\ r.manifestFile = manifestFile
               /\ Produced(r.run) = Produced(run)
               /\ r.disk = disk

\* A fresh call that was given the stylesheet before the image it
\* references and the image before the text file, and processed all three.
C19_Witness ==
    /\ JustRan /\ ~run.call.amend /\ run.ret = 0
    /\ run.call.files = <<STY, IMG, A>>
    /\ Len(ManifestEntries) = 3
    /\ Cardinality(Produced(run)) = 3
    /\ run.manifest[1].pathPhysical = IMG

====
